---- MODULE Spec2Model ----
(***************************************************************************)
(* Cat's HLE 1.3 / Cat's N64 EMU 1.3.3: architecture reconciliation of the *)
(* RetroArch host against the mupen64plus_next core, controller            *)
(* identification and selection, and the emitted button mapping.           *)
(*                                                                         *)
(* Two scripts of the repository carry the architecture pipeline:          *)
(*   "hle13x"  src/cats_hle_1.3x.py                                        *)
(*   "emu133"  src/unnamed/part_000  (Cat's N64 EMU 1.3.3)                 *)
(* They differ in install_core_forced; `script` says which one runs.       *)
(***************************************************************************)
EXTENDS Integers, Sequences, FiniteSets, TLC

VARIABLES
    script,            \* which script is the running process
    SYS_OS,            \* platform.system().lower()
    MACHINE,           \* platform.machine().lower()
    ra_exe,            \* /Applications/RetroArch.app/Contents/MacOS/RetroArch
    LSArchitecturePriority, \* text `defaults read Info.plist LSArchitecturePriority` prints
    rosettaMarker,     \* key RetroArch exists in domain com.apple.rosetta
    coreFile,          \* cores_dir/mupen64plus_next_libretro<ext>
    zipFile,           \* cores_dir/mupen64plus_next.zip
    RETROARCH_ARCH,    \* module global
    PATHS,             \* module global; core_arch is "None" before get_platform_paths ran
    resolved,          \* last call of get_retroarch_running_arch
    last,              \* last call of install_core / install_core_forced
    detected_controllers,  \* ControllerManager.detected_controllers
    active_controller,     \* ControllerManager.active_controller
    scanned,               \* what system_profiler answered in the last detect_all
    lastCall,              \* the ControllerManager operation that ran last
    config,                \* what the last get_retroarch_config call returned
    device,                \* name, vendor_id, product_id _identify_controller was given last
    identified             \* what that call of _identify_controller returned

archVars == <<script, SYS_OS, MACHINE, ra_exe, LSArchitecturePriority,
              rosettaMarker, coreFile, zipFile, RETROARCH_ARCH, PATHS,
              resolved, last>>

ctlVars == <<detected_controllers, active_controller, scanned, lastCall, config>>

idVars == <<device, identified>>

vars == <<archVars, ctlVars, idVars>>

None == "None"

(***************************************************************************)
(* Strings.  str.lower() and the `in` substring test of Python.            *)
(***************************************************************************)
Upper == <<"A","B","C","D","E","F","G","H","I","J","K","L","M",
           "N","O","P","Q","R","S","T","U","V","W","X","Y","Z">>
Lowercase == <<"a","b","c","d","e","f","g","h","i","j","k","l","m",
           "n","o","p","q","r","s","t","u","v","w","x","y","z">>

LowerChar(c) ==
    IF \E i \in 1..26 : Upper[i] = c
    THEN Lowercase[CHOOSE i \in 1..26 : Upper[i] = c]
    ELSE c

RECURSIVE lower(_)
lower(s) ==
    IF Len(s) = 0 THEN ""
    ELSE LowerChar(SubSeq(s, 1, 1)) \o lower(SubSeq(s, 2, Len(s)))

\* Python `p in s` on strings
StrIn(p, s) ==
    \E i \in 1..(Len(s) - Len(p) + 1) : SubSeq(s, i, i + Len(p) - 1) = p

(***************************************************************************)
(* Files.  A binary is described by the architecture tags `lipo -archs`    *)
(* prints for it; the empty set is a file that is no Mach-O binary.        *)
(***************************************************************************)
NoFile == [exists |-> FALSE, archs |-> {}]
Binary(a) == [exists |-> TRUE, archs |-> a]

HostBinaries == {Binary({"arm64", "x86_64"}), Binary({"arm64"}), Binary({"x86_64"})}
CoreBinaries == {Binary({"arm64", "x86_64"}), Binary({"arm64"}), Binary({"x86_64"}), Binary({})}
PriorityTexts == {"", "(arm64)", "(x86_64)"}
ZipStates == {"absent", "partial", "complete"}

IS_APPLE_SILICON == SYS_OS = "darwin" /\ MACHINE \in {"arm64", "aarch64"}

\* get_binary_arch that lets the failure of the lipo call out
get_binary_arch_Raises(file, lipoOk) ==
    IF SYS_OS # "darwin" \/ ~file.exists THEN None
    ELSE IF ~lipoOk THEN "raised"
    ELSE IF "arm64" \in file.archs /\ "x86_64" \in file.archs THEN "universal"
    ELSE IF "arm64" \in file.archs THEN "arm64"
    ELSE IF "x86_64" \in file.archs THEN "x86_64"
    ELSE None

\* get_binary_arch(binary_path); lipoOk = FALSE: subprocess.run raised
\* (lipo missing, timeout) and the except branch returned None
get_binary_arch(file, lipoOk) ==
    IF SYS_OS # "darwin" \/ ~file.exists THEN None
    ELSE IF ~lipoOk THEN None
    ELSE IF "arm64" \in file.archs /\ "x86_64" \in file.archs THEN "universal"
    ELSE IF "arm64" \in file.archs THEN "arm64"
    ELSE IF "x86_64" \in file.archs THEN "x86_64"
    ELSE None

\* get_retroarch_running_arch without the com.apple.rosetta check
get_retroarch_running_arch_NoMarker(lipoOk, prioOk, markerOk) ==
    LET binary_arch == get_binary_arch(ra_exe, lipoOk) IN
    IF ~ra_exe.exists THEN MACHINE
    ELSE IF binary_arch = "universal" THEN
        IF prioOk /\ StrIn("x86_64", LSArchitecturePriority) THEN "x86_64"
        ELSE IF IS_APPLE_SILICON THEN "arm64"
        ELSE "x86_64"
    ELSE IF binary_arch # None THEN binary_arch
    ELSE MACHINE

\* get_retroarch_running_arch that takes every universal host for x86_64
get_retroarch_running_arch_Rosetta(lipoOk, prioOk, markerOk) ==
    LET binary_arch == get_binary_arch(ra_exe, lipoOk) IN
    IF ~ra_exe.exists THEN MACHINE
    ELSE IF binary_arch = "universal" THEN "x86_64"
    ELSE IF binary_arch # None THEN binary_arch
    ELSE MACHINE

\* get_retroarch_running_arch that reads the preference store for every
\* host binary it could probe
get_retroarch_running_arch_PrefsFirst(lipoOk, prioOk, markerOk) ==
    LET binary_arch == get_binary_arch(ra_exe, lipoOk) IN
    IF ~ra_exe.exists THEN MACHINE
    ELSE IF binary_arch # None THEN
        IF prioOk /\ StrIn("x86_64", LSArchitecturePriority) THEN "x86_64"
        ELSE IF markerOk /\ rosettaMarker THEN "x86_64"
        ELSE IF binary_arch # "universal" THEN binary_arch
        ELSE IF IS_APPLE_SILICON THEN "arm64"
        ELSE "x86_64"
    ELSE MACHINE

\* get_retroarch_running_arch(); prioOk / markerOk = FALSE: the `defaults
\* read` call raised and the bare except passed
get_retroarch_running_arch(lipoOk, prioOk, markerOk) ==
    LET binary_arch == get_binary_arch(ra_exe, lipoOk) IN
    IF ~ra_exe.exists THEN MACHINE
    ELSE IF binary_arch = "universal" THEN
        IF prioOk /\ StrIn("x86_64", LSArchitecturePriority) THEN "x86_64"
        ELSE IF markerOk /\ rosettaMarker THEN "x86_64"
        ELSE IF IS_APPLE_SILICON THEN "arm64"
        ELSE "x86_64"
    ELSE IF binary_arch # None THEN binary_arch
    ELSE MACHINE

\* what one call of get_retroarch_running_arch saw and returned
Resolution(lipoOk, prioOk, markerOk) ==
    [called     |-> TRUE,
     lipoOk     |-> lipoOk,
     binary_arch |-> get_binary_arch(ra_exe, lipoOk),
     priority   |-> LSArchitecturePriority,
     marker     |-> rosettaMarker,
     prioOk     |-> prioOk,
     markerOk   |-> markerOk,
     result     |-> get_retroarch_running_arch(lipoOk, prioOk, markerOk)]

NoResolution ==
    [called |-> FALSE, lipoOk |-> TRUE, binary_arch |-> None, priority |-> "", marker |-> FALSE,
     prioOk |-> FALSE, markerOk |-> FALSE, result |-> None]

\* PATHS["core_arch"] as get_platform_paths computes it from the resolved arch
core_arch_of(ra) ==
    IF SYS_OS = "windows" THEN (IF StrIn("64", MACHINE) THEN "x86_64" ELSE "x86")
    ELSE IF SYS_OS = "darwin"
         THEN (IF ra # None THEN ra
               ELSE IF IS_APPLE_SILICON THEN "arm64" ELSE "x86_64")
    ELSE "x86_64"

\* the (is_valid, core_arch, needed_arch) triple
Triple(is_valid, core_arch, needed_arch) ==
    [is_valid |-> is_valid, core_arch |-> core_arch, needed_arch |-> needed_arch]

\* needed_arch = RETROARCH_ARCH or ("arm64" if IS_APPLE_SILICON else "x86_64")
needed_arch_of(ra) ==
    IF ra # None THEN ra ELSE IF IS_APPLE_SILICON THEN "arm64" ELSE "x86_64"

\* verify_core_arch comparing against the machine instead of needed_arch
verify_core_arch_Native(file, ra, lipoOk) ==
    LET core_arch   == get_binary_arch(file, lipoOk)
        needed_arch == needed_arch_of(ra)
        native      == IF IS_APPLE_SILICON THEN "arm64" ELSE "x86_64"
    IN  IF SYS_OS # "darwin" \/ ~file.exists THEN Triple(TRUE, None, None)
        ELSE IF core_arch # None /\ needed_arch # None
        THEN Triple(core_arch = native \/ core_arch = "universal", core_arch, needed_arch)
        ELSE Triple(TRUE, core_arch, needed_arch)

\* verify_core_arch without the universal case
verify_core_arch_NoUniversal(file, ra, lipoOk) ==
    LET core_arch   == get_binary_arch(file, lipoOk)
        needed_arch == needed_arch_of(ra)
    IN  IF SYS_OS # "darwin" \/ ~file.exists THEN Triple(TRUE, None, None)
        ELSE IF core_arch # None /\ needed_arch # None
        THEN Triple(core_arch = needed_arch, core_arch, needed_arch)
        ELSE Triple(TRUE, core_arch, needed_arch)

\* verify_core_arch that lets every probed core pass
verify_core_arch_Lenient(file, ra, lipoOk) ==
    LET core_arch   == get_binary_arch(file, lipoOk)
        needed_arch == needed_arch_of(ra)
    IN  IF SYS_OS # "darwin" \/ ~file.exists THEN Triple(TRUE, None, None)
        ELSE Triple(TRUE, core_arch, needed_arch)

\* verify_core_arch without the `if core_arch and needed_arch` guard
verify_core_arch_NoGuard(file, ra, lipoOk) ==
    LET core_arch   == get_binary_arch(file, lipoOk)
        needed_arch == needed_arch_of(ra)
    IN  IF SYS_OS # "darwin" \/ ~file.exists THEN Triple(TRUE, None, None)
        ELSE Triple(core_arch = needed_arch \/ core_arch = "universal",
                    core_arch, needed_arch)

\* verify_core_arch(core_path) -> (is_valid, core_arch, needed_arch)
verify_core_arch(file, ra, lipoOk) ==
    LET core_arch   == get_binary_arch(file, lipoOk)
        needed_arch == needed_arch_of(ra)
    IN  IF SYS_OS # "darwin" \/ ~file.exists THEN Triple(TRUE, None, None)
        ELSE IF core_arch # None /\ needed_arch # None
        THEN IF core_arch = needed_arch \/ core_arch = "universal"
             THEN Triple(TRUE, core_arch, needed_arch)
             ELSE Triple(FALSE, core_arch, needed_arch)
        ELSE Triple(TRUE, core_arch, needed_arch)

\* the triple of one verify_core_arch call, as kept for inspection
Called(v) ==
    [called |-> TRUE, is_valid |-> v.is_valid,
     core_arch |-> v.core_arch, needed_arch |-> v.needed_arch]

NoVerdict ==
    [called |-> FALSE, is_valid |-> TRUE, core_arch |-> None, needed_arch |-> None]

(***************************************************************************)
(* Acquisition.  What the network and the archive do is the environment's  *)
(* choice:                                                                 *)
(*   connect_fail  requests.get / raise_for_status raises, nothing written *)
(*   stream_fail   iter_content raises after open(path, "wb")              *)
(*   bad_zip       the download completes, zipfile.ZipFile raises          *)
(*   extract_fail  extractall raises after writing the member              *)
(*   ok            the archive unpacks; payload is the core it carries     *)
(*                 (NoFile: the archive holds no core of the wanted name)  *)
(***************************************************************************)
NetOutcomes ==
    {[outcome |-> o, payload |-> NoFile] :
        o \in {"connect_fail", "stream_fail", "bad_zip", "extract_fail"}}
    \cup {[outcome |-> "ok", payload |-> p] : p \in CoreBinaries \cup {NoFile}}

\* download(url, path) -> the file at path, and whether it raised
download(zip, net) ==
    IF zip # "absent" THEN [zip |-> zip, raised |-> FALSE]
    ELSE IF net.outcome = "connect_fail" THEN [zip |-> "absent", raised |-> TRUE]
    ELSE IF net.outcome = "stream_fail" THEN [zip |-> "partial", raised |-> TRUE]
    ELSE [zip |-> "complete", raised |-> FALSE]

\* find_n64_core() -> the core path or None
find_n64_core(core) == IF core.exists THEN "core" ELSE None

\* the result of one install_core_forced call: the files it leaves, its
\* return value, and what it called
Forced(core, zip, ret, downloads, raised, post, probeFailed) ==
    [core |-> core, zip |-> zip, ret |-> ret, downloads |-> downloads,
     raised |-> raised, post |-> post, probeFailed |-> probeFailed]

\* install_core_forced(arch); the requested arch only selects the URL, the
\* environment decides what the archive holds
install_core_forced(core, zip, ra, net, lipoOk) ==
    LET unlinked == IF zip # "absent" THEN "absent" ELSE zip
        d == download(unlinked, net)
    IN  IF d.raised
        THEN Forced(core, d.zip, None, 1, TRUE, NoVerdict, FALSE)
        ELSE IF net.outcome = "bad_zip" \/ d.zip = "partial"
        THEN Forced(core, d.zip, None, 1, TRUE, NoVerdict, FALSE)
        ELSE IF net.outcome = "extract_fail"
        THEN Forced(Binary({}), d.zip, None, 1, TRUE, NoVerdict, FALSE)
        ELSE LET unpacked == IF net.payload.exists THEN net.payload ELSE core
                 found    == find_n64_core(unpacked)
             IN  IF found = None
                 THEN Forced(unpacked, "absent", None, 1, FALSE, NoVerdict, FALSE)
                 ELSE IF script = "hle13x"
                 THEN Forced(unpacked, "absent", found, 1, FALSE, NoVerdict, FALSE)
                 ELSE LET v == verify_core_arch(unpacked, ra, lipoOk)
                      IN  Forced(unpacked, "absent",
                                 IF v.is_valid THEN found ELSE None,
                                 1, FALSE, Called(v),
                                 SYS_OS = "darwin" /\ ~lipoOk)

\* the outcome of one install_core call
Outcome(op, f, acquisitions, first, reqArch, coreBefore) ==
    [op |-> op, ret |-> f.ret, acquisitions |-> acquisitions,
     downloads |-> f.downloads, raised |-> f.raised,
     first |-> first, post |-> f.post, probeFailed |-> f.probeFailed,
     reqArch |-> reqArch, coreBefore |-> coreBefore,
     core |-> f.core, zip |-> f.zip]

\* install_core that acquires again when the first acquisition gave no core
install_core_Retry(op, core, zip, ra, paths, net, lipoOk1, lipoOk2) ==
    LET again(f) ==
            IF f.ret # None THEN f
            ELSE LET g == install_core_forced(f.core, f.zip, ra, net, lipoOk2)
                 IN  Forced(g.core, g.zip, g.ret, f.downloads + g.downloads,
                            g.raised, g.post, g.probeFailed)
        count(f) == IF f.ret # None THEN 1 ELSE 2
    IN
    IF find_n64_core(core) # None
    THEN LET v == verify_core_arch(core, ra, lipoOk1)
             f == install_core_forced(NoFile, zip, ra, net, lipoOk2)
         IN  IF ~v.is_valid
             THEN Outcome(op, again(f), count(f), Called(v), v.needed_arch, core)
             ELSE Outcome(op, Forced(core, zip, "core", 0, FALSE, NoVerdict, FALSE),
                          0, Called(v), None, core)
    ELSE LET f == install_core_forced(core, zip, ra, net, lipoOk2)
         IN  Outcome(op, again(f), count(f), NoVerdict, paths.core_arch, core)

\* install_core without the `if core:` test: an absent core is verified, found
\* valid and returned
install_core_NoAcquire(op, core, zip, ra, paths, net, lipoOk1, lipoOk2) ==
    LET v == verify_core_arch(core, ra, lipoOk1)
    IN  IF ~v.is_valid
        THEN Outcome(op, install_core_forced(NoFile, zip, ra, net, lipoOk2),
                     1, Called(v), v.needed_arch, core)
        ELSE Outcome(op, Forced(core, zip, "core", 0, FALSE, NoVerdict, FALSE),
                     0, Called(v), None, core)

\* install_core without core.unlink(): the mismatched core stays on disk
\* while the acquisition runs
install_core_KeepOld(op, core, zip, ra, paths, net, lipoOk1, lipoOk2) ==
    IF find_n64_core(core) # None
    THEN LET v == verify_core_arch(core, ra, lipoOk1)
         IN  IF ~v.is_valid
             THEN Outcome(op, install_core_forced(core, zip, ra, net, lipoOk2),
                          1, Called(v), v.needed_arch, core)
             ELSE Outcome(op, Forced(core, zip, "core", 0, FALSE, NoVerdict, FALSE),
                          0, Called(v), None, core)
    ELSE Outcome(op, install_core_forced(core, zip, ra, net, lipoOk2),
                 1, NoVerdict, paths.core_arch, core)

\* install_core()
install_core(op, core, zip, ra, paths, net, lipoOk1, lipoOk2) ==
    IF find_n64_core(core) # None
    THEN LET v == verify_core_arch(core, ra, lipoOk1)
         IN  IF ~v.is_valid
             THEN Outcome(op, install_core_forced(NoFile, zip, ra, net, lipoOk2),
                          1, Called(v), v.needed_arch, core)
             ELSE Outcome(op, Forced(core, zip, "core", 0, FALSE, NoVerdict, FALSE),
                          0, Called(v), None, core)
    ELSE Outcome(op, install_core_forced(core, zip, ra, net, lipoOk2),
                 1, NoVerdict, paths.core_arch, core)

NoOutcome ==
    Outcome("none", Forced(NoFile, "absent", None, 0, FALSE, NoVerdict, FALSE),
            0, NoVerdict, None, NoFile)

\* lipo runs, and so can fail, only on darwin and for an existing file
ProbeOutcomes(file) == IF SYS_OS = "darwin" /\ file.exists THEN BOOLEAN ELSE {TRUE}

\* `defaults read` runs, and so can fail, only for a universal host binary
ReadOutcomes(lipoOk) ==
    IF get_binary_arch(ra_exe, lipoOk) = "universal" THEN BOOLEAN ELSE {TRUE}

\* the re-probe of install_core_forced exists in emu133 only
ReprobeOutcomes == IF SYS_OS = "darwin" /\ script = "emu133" THEN BOOLEAN ELSE {TRUE}

(***************************************************************************)
(* The process.                                                            *)
(***************************************************************************)
Platforms ==
    {<<"darwin", "arm64">>, <<"darwin", "x86_64">>,
     <<"linux", "x86_64">>, <<"windows", "amd64">>}

InitFiles ==
    /\ script \in {"hle13x", "emu133"}
    /\ \E p \in Platforms : SYS_OS = p[1] /\ MACHINE = p[2]
    /\ ra_exe \in (IF SYS_OS = "darwin" THEN HostBinaries \cup {NoFile} ELSE {NoFile})
    /\ LSArchitecturePriority \in (IF SYS_OS = "darwin" THEN PriorityTexts ELSE {""})
    /\ rosettaMarker \in (IF SYS_OS = "darwin" THEN BOOLEAN ELSE {FALSE})
    /\ coreFile \in CoreBinaries \cup {NoFile}
    /\ zipFile \in ZipStates
    /\ RETROARCH_ARCH = None
    /\ PATHS = [core_arch |-> None]
    /\ resolved = NoResolution
    /\ last = NoOutcome

\* module level: PATHS = get_platform_paths()
get_platform_paths ==
    /\ PATHS.core_arch = None
    /\ \E lipoOk \in ProbeOutcomes(ra_exe) :
       \E prioOk \in ReadOutcomes(lipoOk), markerOk \in ReadOutcomes(lipoOk) :
          LET r == Resolution(lipoOk, prioOk, markerOk)
              ra == IF SYS_OS = "darwin" THEN r.result ELSE RETROARCH_ARCH
          IN  /\ RETROARCH_ARCH' = ra
              /\ resolved' = IF SYS_OS = "darwin" THEN r ELSE resolved
              /\ PATHS' = [core_arch |-> core_arch_of(ra)]
    /\ UNCHANGED <<script, SYS_OS, MACHINE, ra_exe, LSArchitecturePriority,
                   rosettaMarker, coreFile, zipFile, last, ctlVars, idVars>>

\* the files and records one install_core call leaves
Installed(o) ==
    /\ coreFile' = o.core
    /\ zipFile' = o.zip
    /\ last' = o
    /\ UNCHANGED <<script, SYS_OS, MACHINE, ra_exe, LSArchitecturePriority,
                   rosettaMarker, RETROARCH_ARCH, PATHS, resolved, ctlVars, idVars>>

\* self.core = install_core(), as init_app calls it
InstallCore ==
    /\ PATHS.core_arch # None
    /\ \E net \in NetOutcomes, lipoOk1 \in ProbeOutcomes(coreFile),
          lipoOk2 \in ReprobeOutcomes :
          Installed(install_core("install_core", coreFile, zipFile, RETROARCH_ARCH,
                                 PATHS, net, lipoOk1, lipoOk2))

\* reinstall_core: unlink the core, then self.core = install_core()
reinstall_core ==
    /\ PATHS.core_arch # None
    /\ \E net \in NetOutcomes, lipoOk1 \in ProbeOutcomes(NoFile),
          lipoOk2 \in ReprobeOutcomes :
          Installed(install_core("reinstall_core", NoFile, zipFile, RETROARCH_ARCH,
                                 PATHS, net, lipoOk1, lipoOk2))


(***************************************************************************)
(* Controller registry.  A field a profile does not give carries the       *)
(* default data.get(...) supplies: no ids, no patterns, auto_detect False. *)
(***************************************************************************)
Profile(id, name, year, vendor_ids, product_ids, product_patterns, n64_map, auto_detect) ==
    [id |-> id, name |-> name, year |-> year, vendor_ids |-> vendor_ids,
     product_ids |-> product_ids, product_patterns |-> product_patterns,
     n64_map |-> n64_map, auto_detect |-> auto_detect]

\* "n64_map": "native"
Native == [native |-> TRUE, map |-> <<>>]

\* "n64_map": {...}
Mapping(m) == [native |-> FALSE, map |-> m]

CONTROLLER_DATABASE == <<
    Profile("nes", "NES Controller", 1985, <<"0x0079">>,
            <<>>,
            <<>>,
            Mapping("A" :> "a" @@ "B" :> "b" @@ "Start" :> "start"), FALSE),
    Profile("atari_7800", "Atari 7800 ProLine", 1986, <<"0x0001">>,
            <<>>,
            <<>>,
            Mapping("Fire1" :> "a" @@ "Fire2" :> "b"), FALSE),
    Profile("master_system", "Sega Master System", 1986, <<>>,
            <<>>,
            <<>>,
            Mapping("1" :> "a" @@ "2" :> "b"), FALSE),
    Profile("snes", "SNES Controller", 1990, <<"0x0079", "0x081F">>,
            <<>>,
            <<>>,
            Mapping("A" :> "a" @@ "B" :> "b" @@ "X" :> "c_up" @@ "Y" :> "c_left" @@ "L" :> "l" @@ "R" :> "r" @@ "Start" :> "start"), FALSE),
    Profile("genesis_3btn", "Sega Genesis 3-Button", 1989, <<"0x0079">>,
            <<>>,
            <<>>,
            Mapping("A" :> "a" @@ "B" :> "b" @@ "C" :> "c_down" @@ "Start" :> "start"), FALSE),
    Profile("genesis_6btn", "Sega Genesis 6-Button", 1993, <<"0x0079", "0x1BAD">>,
            <<>>,
            <<>>,
            Mapping("A" :> "a" @@ "B" :> "b" @@ "C" :> "c_down" @@ "X" :> "c_up" @@ "Y" :> "c_left" @@ "Z" :> "c_right" @@ "Start" :> "start"), FALSE),
    Profile("turbografx", "TurboGrafx-16", 1989, <<>>,
            <<>>,
            <<>>,
            Mapping("I" :> "a" @@ "II" :> "b" @@ "Run" :> "start"), FALSE),
    Profile("neo_geo", "Neo Geo AES", 1990, <<>>,
            <<>>,
            <<>>,
            Mapping("A" :> "a" @@ "B" :> "b" @@ "C" :> "c_down" @@ "D" :> "c_right" @@ "Start" :> "start"), FALSE),
    Profile("ps1", "PlayStation DualShock", 1997, <<"0x054C">>,
            <<>>,
            <<>>,
            Mapping("X" :> "a" @@ "O" :> "b" @@ "Square" :> "c_left" @@ "Triangle" :> "c_up" @@ "L1" :> "l" @@ "R1" :> "r" @@ "L2" :> "z" @@ "Start" :> "start" @@ "Left Stick" :> "analog"), FALSE),
    Profile("saturn", "Sega Saturn", 1995, <<"0x0CA3">>,
            <<>>,
            <<>>,
            Mapping("A" :> "a" @@ "B" :> "b" @@ "C" :> "c_down" @@ "X" :> "c_up" @@ "Y" :> "c_left" @@ "Z" :> "c_right" @@ "L" :> "l" @@ "R" :> "r" @@ "Start" :> "start"), FALSE),
    Profile("n64", "Nintendo 64", 1996, <<"0x0079", "0x057E">>,
            <<>>,
            <<>>,
            Native, FALSE),
    Profile("dreamcast", "Sega Dreamcast", 1999, <<"0x0CA3">>,
            <<>>,
            <<>>,
            Mapping("A" :> "a" @@ "B" :> "b" @@ "X" :> "c_up" @@ "Y" :> "c_left" @@ "L" :> "l" @@ "R" :> "r" @@ "Start" :> "start" @@ "Analog Stick" :> "analog"), FALSE),
    Profile("ps2", "PlayStation 2 DualShock 2", 2000, <<"0x054C">>,
            <<>>,
            <<>>,
            Mapping("X" :> "a" @@ "O" :> "b" @@ "Square" :> "c_left" @@ "Triangle" :> "c_up" @@ "L1" :> "l" @@ "R1" :> "r" @@ "L2" :> "z" @@ "Start" :> "start" @@ "Left Stick" :> "analog"), FALSE),
    Profile("xbox_duke", "Xbox Duke", 2001, <<"0x045E">>,
            <<>>,
            <<>>,
            Mapping("A" :> "a" @@ "B" :> "b" @@ "X" :> "c_up" @@ "Y" :> "c_left" @@ "Black" :> "c_right" @@ "White" :> "c_down" @@ "L" :> "l" @@ "R" :> "r" @@ "Start" :> "start" @@ "Left Stick" :> "analog"), FALSE),
    Profile("xbox_s", "Xbox Controller S", 2002, <<"0x045E">>,
            <<>>,
            <<>>,
            Mapping("A" :> "a" @@ "B" :> "b" @@ "X" :> "c_up" @@ "Y" :> "c_left" @@ "L" :> "l" @@ "R" :> "r" @@ "Start" :> "start" @@ "Left Stick" :> "analog"), FALSE),
    Profile("gamecube", "Nintendo GameCube", 2001, <<"0x057E", "0x0079">>,
            <<>>,
            <<>>,
            Mapping("A" :> "a" @@ "B" :> "b" @@ "X" :> "c_up" @@ "Y" :> "c_left" @@ "Z" :> "z" @@ "L" :> "l" @@ "R" :> "r" @@ "Start" :> "start" @@ "Control Stick" :> "analog" @@ "C-Stick" :> "c_buttons"), FALSE),
    Profile("xbox_360", "Xbox 360", 2005, <<"0x045E", "0x24C6", "0x0738">>,
            <<>>,
            <<"Xbox 360", "X360">>,
            Mapping("A" :> "a" @@ "B" :> "b" @@ "X" :> "c_up" @@ "Y" :> "c_left" @@ "LB" :> "l" @@ "RB" :> "r" @@ "LT" :> "z" @@ "Start" :> "start" @@ "Left Stick" :> "analog" @@ "Right Stick" :> "c_buttons"), FALSE),
    Profile("ps3", "PlayStation 3 DualShock 3/Sixaxis", 2006, <<"0x054C">>,
            <<>>,
            <<"PLAYSTATION(R)3", "DUALSHOCK 3", "SIXAXIS">>,
            Mapping("X" :> "a" @@ "O" :> "b" @@ "Square" :> "c_left" @@ "Triangle" :> "c_up" @@ "L1" :> "l" @@ "R1" :> "r" @@ "L2" :> "z" @@ "Start" :> "start" @@ "Left Stick" :> "analog" @@ "Right Stick" :> "c_buttons"), FALSE),
    Profile("wii_remote", "Wii Remote", 2006, <<"0x057E">>,
            <<>>,
            <<"Wii Remote", "RVL-CNT">>,
            Mapping("A" :> "a" @@ "B" :> "b" @@ "1" :> "c_down" @@ "2" :> "c_up" @@ "+" :> "start"), FALSE),
    Profile("wii_classic", "Wii Classic Controller", 2006, <<"0x057E">>,
            <<>>,
            <<>>,
            Mapping("a" :> "a" @@ "b" :> "b" @@ "x" :> "c_up" @@ "y" :> "c_left" @@ "L" :> "l" @@ "R" :> "r" @@ "ZL" :> "z" @@ "+" :> "start" @@ "Left Stick" :> "analog"), FALSE),
    Profile("wii_u_pro", "Wii U Pro Controller", 2012, <<"0x057E">>,
            <<>>,
            <<"Wii U Pro">>,
            Mapping("A" :> "a" @@ "B" :> "b" @@ "X" :> "c_up" @@ "Y" :> "c_left" @@ "L" :> "l" @@ "R" :> "r" @@ "ZL" :> "z" @@ "+" :> "start" @@ "Left Stick" :> "analog" @@ "Right Stick" :> "c_buttons"), FALSE),
    Profile("wii_u_gamepad", "Wii U GamePad", 2012, <<"0x057E">>,
            <<>>,
            <<>>,
            Mapping("A" :> "a" @@ "B" :> "b" @@ "X" :> "c_up" @@ "Y" :> "c_left" @@ "L" :> "l" @@ "R" :> "r" @@ "ZL" :> "z" @@ "+" :> "start" @@ "Left Stick" :> "analog"), FALSE),
    Profile("ps4", "PlayStation 4 DualShock 4", 2013, <<"0x054C">>,
            <<"0x05C4", "0x09CC", "0x0BA0">>,
            <<"DualShock 4", "Wireless Controller">>,
            Mapping("X" :> "a" @@ "O" :> "b" @@ "Square" :> "c_left" @@ "Triangle" :> "c_up" @@ "L1" :> "l" @@ "R1" :> "r" @@ "L2" :> "z" @@ "Options" :> "start" @@ "Left Stick" :> "analog" @@ "Right Stick" :> "c_buttons"), FALSE),
    Profile("xbox_one", "Xbox One", 2013, <<"0x045E", "0x0E6F", "0x24C6">>,
            <<"0x02D1", "0x02DD", "0x02E3", "0x02EA", "0x0B00", "0x0B0A", "0x0B12">>,
            <<"Xbox One", "Xbox Wireless">>,
            Mapping("A" :> "a" @@ "B" :> "b" @@ "X" :> "c_up" @@ "Y" :> "c_left" @@ "LB" :> "l" @@ "RB" :> "r" @@ "LT" :> "z" @@ "Menu" :> "start" @@ "Left Stick" :> "analog" @@ "Right Stick" :> "c_buttons"), FALSE),
    Profile("steam_controller", "Steam Controller", 2015, <<"0x28DE">>,
            <<>>,
            <<"Steam Controller", "Valve Software Steam Controller">>,
            Mapping("A" :> "a" @@ "B" :> "b" @@ "X" :> "c_up" @@ "Y" :> "c_left" @@ "LB" :> "l" @@ "RB" :> "r" @@ "LT" :> "z" @@ "Start" :> "start" @@ "Joystick" :> "analog" @@ "Right Trackpad" :> "c_buttons"), FALSE),
    Profile("switch_pro", "Nintendo Switch Pro Controller", 2017, <<"0x057E">>,
            <<"0x2009">>,
            <<"Pro Controller", "Switch Pro">>,
            Mapping("A" :> "a" @@ "B" :> "b" @@ "X" :> "c_up" @@ "Y" :> "c_left" @@ "L" :> "l" @@ "R" :> "r" @@ "ZL" :> "z" @@ "+" :> "start" @@ "Left Stick" :> "analog" @@ "Right Stick" :> "c_buttons"), TRUE),
    Profile("joycon_l", "Nintendo Switch Joy-Con (L)", 2017, <<"0x057E">>,
            <<"0x2006">>,
            <<"Joy-Con (L)", "Joy-Con Left">>,
            Mapping("L" :> "l" @@ "ZL" :> "z" @@ "-" :> "start" @@ "Stick" :> "analog"), TRUE),
    Profile("joycon_r", "Nintendo Switch Joy-Con (R)", 2017, <<"0x057E">>,
            <<"0x2007">>,
            <<"Joy-Con (R)", "Joy-Con Right">>,
            Mapping("A" :> "a" @@ "B" :> "b" @@ "X" :> "c_up" @@ "Y" :> "c_left" @@ "R" :> "r" @@ "ZR" :> "z" @@ "+" :> "start" @@ "Stick" :> "c_buttons"), TRUE),
    Profile("joycon_pair", "Nintendo Switch Joy-Con Pair", 2017, <<"0x057E">>,
            <<>>,
            <<"Joy-Con", "Combined Joy-Con">>,
            Mapping("A" :> "a" @@ "B" :> "b" @@ "X" :> "c_up" @@ "Y" :> "c_left" @@ "L" :> "l" @@ "R" :> "r" @@ "ZL" :> "z" @@ "+" :> "start" @@ "Left Stick" :> "analog" @@ "Right Stick" :> "c_buttons"), TRUE),
    Profile("switch_snes", "Nintendo Switch SNES Controller", 2019, <<"0x057E">>,
            <<"0x2017">>,
            <<>>,
            Mapping("A" :> "a" @@ "B" :> "b" @@ "X" :> "c_up" @@ "Y" :> "c_left" @@ "L" :> "l" @@ "R" :> "r" @@ "+" :> "start"), FALSE),
    Profile("switch_n64", "Nintendo Switch N64 Controller", 2021, <<"0x057E">>,
            <<"0x2019">>,
            <<>>,
            Native, TRUE),
    Profile("ps5", "PlayStation 5 DualSense", 2020, <<"0x054C">>,
            <<"0x0CE6", "0x0DF2">>,
            <<"DualSense", "PS5 Controller">>,
            Mapping("X" :> "a" @@ "O" :> "b" @@ "Square" :> "c_left" @@ "Triangle" :> "c_up" @@ "L1" :> "l" @@ "R1" :> "r" @@ "L2" :> "z" @@ "Options" :> "start" @@ "Left Stick" :> "analog" @@ "Right Stick" :> "c_buttons"), TRUE),
    Profile("ps5_edge", "PlayStation 5 DualSense Edge", 2023, <<"0x054C">>,
            <<"0x0D5E">>,
            <<>>,
            Mapping("X" :> "a" @@ "O" :> "b" @@ "Square" :> "c_left" @@ "Triangle" :> "c_up" @@ "L1" :> "l" @@ "R1" :> "r" @@ "L2" :> "z" @@ "Options" :> "start" @@ "Left Stick" :> "analog" @@ "Right Stick" :> "c_buttons"), TRUE),
    Profile("xbox_series", "Xbox Series X|S", 2020, <<"0x045E">>,
            <<"0x0B13", "0x0B20", "0x0B21", "0x0B22">>,
            <<"Xbox Series", "Xbox Wireless Controller">>,
            Mapping("A" :> "a" @@ "B" :> "b" @@ "X" :> "c_up" @@ "Y" :> "c_left" @@ "LB" :> "l" @@ "RB" :> "r" @@ "LT" :> "z" @@ "Menu" :> "start" @@ "Left Stick" :> "analog" @@ "Right Stick" :> "c_buttons"), TRUE),
    Profile("xbox_elite_2", "Xbox Elite Series 2", 2019, <<"0x045E">>,
            <<"0x0B00", "0x0B05">>,
            <<>>,
            Mapping("A" :> "a" @@ "B" :> "b" @@ "X" :> "c_up" @@ "Y" :> "c_left" @@ "LB" :> "l" @@ "RB" :> "r" @@ "LT" :> "z" @@ "Menu" :> "start" @@ "Left Stick" :> "analog" @@ "Right Stick" :> "c_buttons"), TRUE),
    Profile("8bitdo_pro2", "8BitDo Pro 2", 2021, <<"0x2DC8", "0x045E">>,
            <<>>,
            <<"8BitDo Pro 2", "Pro 2">>,
            Mapping("A" :> "a" @@ "B" :> "b" @@ "X" :> "c_up" @@ "Y" :> "c_left" @@ "L" :> "l" @@ "R" :> "r" @@ "L2" :> "z" @@ "+" :> "start" @@ "Left Stick" :> "analog" @@ "Right Stick" :> "c_buttons"), TRUE),
    Profile("8bitdo_sn30", "8BitDo SN30 Pro", 2018, <<"0x2DC8">>,
            <<>>,
            <<"8BitDo SN30", "SN30 Pro">>,
            Mapping("A" :> "a" @@ "B" :> "b" @@ "X" :> "c_up" @@ "Y" :> "c_left" @@ "L" :> "l" @@ "R" :> "r" @@ "L2" :> "z" @@ "+" :> "start" @@ "Left Stick" :> "analog"), FALSE),
    Profile("8bitdo_ultimate", "8BitDo Ultimate Controller", 2022, <<"0x2DC8">>,
            <<>>,
            <<"8BitDo Ultimate", "Ultimate Controller">>,
            Mapping("A" :> "a" @@ "B" :> "b" @@ "X" :> "c_up" @@ "Y" :> "c_left" @@ "L" :> "l" @@ "R" :> "r" @@ "L2" :> "z" @@ "+" :> "start" @@ "Left Stick" :> "analog" @@ "Right Stick" :> "c_buttons"), TRUE),
    Profile("backbone_one", "Backbone One", 2020, <<"0x358A">>,
            <<>>,
            <<"Backbone One", "Backbone">>,
            Mapping("A" :> "a" @@ "B" :> "b" @@ "X" :> "c_up" @@ "Y" :> "c_left" @@ "L1" :> "l" @@ "R1" :> "r" @@ "L2" :> "z" @@ "Menu" :> "start" @@ "Left Stick" :> "analog" @@ "Right Stick" :> "c_buttons"), TRUE),
    Profile("razer_kishi", "Razer Kishi", 2020, <<"0x1532">>,
            <<>>,
            <<"Razer Kishi", "Kishi">>,
            Mapping("A" :> "a" @@ "B" :> "b" @@ "X" :> "c_up" @@ "Y" :> "c_left" @@ "L1" :> "l" @@ "R1" :> "r" @@ "L2" :> "z" @@ "Menu" :> "start" @@ "Left Stick" :> "analog" @@ "Right Stick" :> "c_buttons"), TRUE),
    Profile("gulikit_kingkong", "GuliKit KingKong Pro", 2021, <<"0x0E8F">>,
            <<>>,
            <<"GuliKit", "KingKong">>,
            Mapping("A" :> "a" @@ "B" :> "b" @@ "X" :> "c_up" @@ "Y" :> "c_left" @@ "L" :> "l" @@ "R" :> "r" @@ "ZL" :> "z" @@ "+" :> "start" @@ "Left Stick" :> "analog" @@ "Right Stick" :> "c_buttons"), TRUE),
    Profile("hori_split_pad", "HORI Split Pad Pro", 2019, <<"0x0F0D">>,
            <<>>,
            <<"Split Pad", "HORI">>,
            Mapping("A" :> "a" @@ "B" :> "b" @@ "X" :> "c_up" @@ "Y" :> "c_left" @@ "L" :> "l" @@ "R" :> "r" @@ "ZL" :> "z" @@ "+" :> "start" @@ "Left Stick" :> "analog" @@ "Right Stick" :> "c_buttons"), TRUE),
    Profile("arcade_stick", "Generic Arcade Stick", 1980, <<>>,
            <<>>,
            <<"Arcade", "Fight Stick", "Fightstick">>,
            Mapping("1" :> "a" @@ "2" :> "b" @@ "3" :> "c_down" @@ "4" :> "c_up" @@ "5" :> "l" @@ "6" :> "r" @@ "Start" :> "start" @@ "Joystick" :> "analog"), FALSE),
    Profile("hori_rap", "HORI Real Arcade Pro", 2005, <<"0x0F0D">>,
            <<>>,
            <<"Real Arcade Pro", "RAP", "HORI Arcade">>,
            Mapping("X" :> "a" @@ "O" :> "b" @@ "Square" :> "c_left" @@ "Triangle" :> "c_up" @@ "L1" :> "l" @@ "R1" :> "r" @@ "L2" :> "z" @@ "Options" :> "start" @@ "Joystick" :> "analog"), FALSE),
    Profile("raphnet_n64", "Raphnet N64 to USB", 2010, <<"0x289B">>,
            <<>>,
            <<"raphnet", "N64 to USB">>,
            Native, FALSE),
    Profile("mayflash_n64", "Mayflash N64 Adapter", 2012, <<"0x0079", "0x0E8F">>,
            <<>>,
            <<"Mayflash", "N64">>,
            Native, FALSE),
    Profile("retro_usb", "RetroUSB AVS/Retro Controller", 2010, <<"0x1781">>,
            <<>>,
            <<"RetroUSB", "AVS">>,
            Mapping("A" :> "a" @@ "B" :> "b" @@ "Start" :> "start"), FALSE),
    Profile("generic_xinput", "Generic XInput Controller", 2005, <<>>,
            <<>>,
            <<"XInput", "Controller", "Gamepad", "Game Controller">>,
            Mapping("A" :> "a" @@ "B" :> "b" @@ "X" :> "c_up" @@ "Y" :> "c_left" @@ "LB" :> "l" @@ "RB" :> "r" @@ "LT" :> "z" @@ "Start" :> "start" @@ "Left Stick" :> "analog" @@ "Right Stick" :> "c_buttons"), FALSE),
    Profile("generic_dinput", "Generic DirectInput Controller", 1995, <<>>,
            <<>>,
            <<"DirectInput", "USB Gamepad", "USB Joystick">>,
            Mapping("Button 1" :> "a" @@ "Button 2" :> "b" @@ "Button 3" :> "c_down" @@ "Button 4" :> "c_up" @@ "L1" :> "l" @@ "R1" :> "r" @@ "Start" :> "start"), FALSE)
>>

\* CONTROLLER_DATABASE[key]
ProfileOf(key) ==
    CONTROLLER_DATABASE[CHOOSE i \in 1..Len(CONTROLLER_DATABASE) :
                            CONTROLLER_DATABASE[i].id = key]

(***************************************************************************)
(* Controller Matcher.                                                     *)
(***************************************************************************)
\* JSON null, a value that is no string
Null == "<null>"

\* the result None of _identify_controller
NoController == [id |-> None]

\* the dict _identify_controller returns for a registry entry
Matched(data, name, vendor_id, product_id) ==
    [id |-> data.id, name |-> data.name, year |-> data.year,
     detected_name |-> name, vendor_id |-> vendor_id, product_id |-> product_id,
     n64_map |-> data.n64_map, auto_detect |-> data.auto_detect]

\* a pattern test that asks for the whole name
PatternHit_WholeName(data, name_lower) ==
    \E k \in 1..Len(data.product_patterns) :
        lower(data.product_patterns[k]) = name_lower

\* for pattern in patterns: if pattern.lower() in name_lower
PatternHit(data, name_lower) ==
    \E k \in 1..Len(data.product_patterns) :
        StrIn(lower(data.product_patterns[k]), name_lower)

\* a vendor loop that returns the entry without looking at its product ids
VendorHit_VendorOnly(data, vendor_id, product_id) ==
    \E v \in 1..Len(data.vendor_ids) :
        StrIn(lower(data.vendor_ids[v]), lower(vendor_id))

\* the vendor loop of one entry: the first vendor id found in the device's
\* either returns the entry (no product ids, or a product id found in the
\* device's) or, with product ids of which none is found, goes on with the
\* next vendor id
VendorHit(data, vendor_id, product_id) ==
    \E v \in 1..Len(data.vendor_ids) :
        /\ StrIn(lower(data.vendor_ids[v]), lower(vendor_id))
        /\ \/ Len(data.product_ids) = 0
           \/ \E q \in 1..Len(data.product_ids) :
                  StrIn(lower(data.product_ids[q]), lower(product_id))

controller_keywords == <<"controller", "gamepad", "joystick", "joypad", "game pad">>

\* a keyword branch that takes every device for a controller
GenericFallback_Any(name, vendor_id, product_id) ==
    [id |-> "generic_xinput",
     name |-> "Unknown Controller (" \o name \o ")",
     year |-> 2000,
     detected_name |-> name, vendor_id |-> vendor_id, product_id |-> product_id,
     n64_map |-> ProfileOf("generic_xinput").n64_map,
     auto_detect |-> FALSE]

\* a keyword branch that knows the keywords "controller" and "gamepad" only
GenericFallback_TwoKeywords(name, vendor_id, product_id) ==
    IF StrIn("controller", lower(name)) \/ StrIn("gamepad", lower(name))
    THEN GenericFallback_Any(name, vendor_id, product_id)
    ELSE NoController

\* the keyword branch after the registry loop
GenericFallback(name, vendor_id, product_id) ==
    IF \E k \in 1..Len(controller_keywords) : StrIn(controller_keywords[k], lower(name))
    THEN [id |-> "generic_xinput",
          name |-> "Unknown Controller (" \o name \o ")",
          year |-> 2000,
          detected_name |-> name, vendor_id |-> vendor_id, product_id |-> product_id,
          n64_map |-> ProfileOf("generic_xinput").n64_map,
          auto_detect |-> FALSE]
    ELSE NoController

\* _identify_controller with a full name pass before the id pass
_identify_controller_TwoPass(name, vendor_id, product_id) ==
    LET n == Len(CONTROLLER_DATABASE)
        byName == {i \in 1..n : PatternHit(CONTROLLER_DATABASE[i], lower(name))}
        byId == {i \in 1..n : VendorHit(CONTROLLER_DATABASE[i], vendor_id, product_id)}
        least(S) == CHOOSE i \in S : \A j \in S : i <= j
    IN  IF byName # {}
        THEN Matched(CONTROLLER_DATABASE[least(byName)], name, vendor_id, product_id)
        ELSE IF byId # {}
        THEN Matched(CONTROLLER_DATABASE[least(byId)], name, vendor_id, product_id)
        ELSE GenericFallback(name, vendor_id, product_id)

\* _identify_controller that compares the name as the device reports it
_identify_controller_CaseSensitive(name, vendor_id, product_id) ==
    LET n == Len(CONTROLLER_DATABASE)
        hits == {i \in 1..n :
                    \/ PatternHit(CONTROLLER_DATABASE[i], name)
                    \/ VendorHit(CONTROLLER_DATABASE[i], vendor_id, product_id)}
    IN  IF hits # {}
        THEN Matched(CONTROLLER_DATABASE[CHOOSE i \in hits : \A j \in hits : i <= j],
                     name, vendor_id, product_id)
        ELSE GenericFallback(name, vendor_id, product_id)

\* _identify_controller(name, vendor_id, product_id): one pass over the
\* registry, each entry tried by name pattern and then by vendor id
_identify_controller(name, vendor_id, product_id) ==
    LET n == Len(CONTROLLER_DATABASE)
        name_lower == lower(name)
        hits == {i \in 1..n :
                    \/ PatternHit(CONTROLLER_DATABASE[i], name_lower)
                    \/ VendorHit(CONTROLLER_DATABASE[i], vendor_id, product_id)}
    IN  IF hits # {}
        THEN Matched(CONTROLLER_DATABASE[CHOOSE i \in hits : \A j \in hits : i <= j],
                     name, vendor_id, product_id)
        ELSE GenericFallback(name, vendor_id, product_id)

(***************************************************************************)
(* Controller Scanner.  What system_profiler reports is the environment's  *)
(* choice: a USB tree of buses with the attached devices as their _items,  *)
(* and the names of the connected Bluetooth devices.                       *)
(***************************************************************************)
MaxDevices == 2

\* a dict node of SPUSBDataType
UsbNode(name, vendor_id, product_id, items) ==
    [isdict |-> TRUE, _name |-> name, vendor_id |-> vendor_id,
     product_id |-> product_id, _items |-> items]

\* an element of an _items list that is no dict
NotADict ==
    [isdict |-> FALSE, _name |-> "", vendor_id |-> "", product_id |-> "",
     _items |-> <<>>]

\* the well-formed device nodes of the sample
UsbDevices ==
    {UsbNode("Xbox 360 Controller", "0x045e  (Microsoft Corporation)", "0x028e", <<>>),
     UsbNode("Xbox 360 Controller", "0x0e6f", "0x0213", <<>>),
     UsbNode("Pro Controller", "0x057e  (Nintendo Co., Ltd.)", "0x2009", <<>>),
     UsbNode("USB Keyboard", "0x05ac (Apple Inc.)", "0x024f", <<>>)}

\* the nodes a bus can carry: devices, a node whose "_name" is null, and
\* an element that is no dict
UsbNodes ==
    UsbDevices \cup {UsbNode(Null, "0x1a2c", "0x0e24", <<>>), NotADict}

PairedNames ==
    {"Pro Controller", "8BitDo SN30 Pro", "Xbox Wireless Controller",
     "Generic Joystick", "AirPods"}

\* two paired devices no registry entry knows, both the unknown controller
\* of year 2000
PairedUnknown == {"Generic Joystick", "USB Joypad"}

\* the sequences over S of length at most n
SeqsUpTo(S, n) == UNION {[1..k -> S] : k \in 0..n}

\* the USB nodes and paired names of one enumeration: at most MaxDevices
\* together
Attached ==
    UNION {{<<items, names>> : items \in [1..km[1] -> UsbNodes],
                               names \in [1..km[2] -> PairedNames]} :
           km \in {x \in (0..MaxDevices) \X (0..MaxDevices) : x[1] + x[2] <= MaxDevices}}

\* one answer of the two system_profiler calls
Enumerations ==
    [usb : {"raised"}, buses : {<<>>}, bt : {"skipped"}, paired : {<<>>}]
    \cup
    {[usb |-> "ok", buses |-> <<UsbNode("USB31Bus", "", "", a[1])>>,
      bt |-> "ok", paired |-> a[2]] : a \in Attached}
    \cup
    [usb : {"ok", "nonzero"},
     buses : {<<UsbNode("USB31Bus", "", "", items)>> : items \in SeqsUpTo(UsbNodes, 1)},
     bt : {"raised", "nonzero"}, paired : {<<>>}]
    \cup
    {[usb |-> "ok", buses |-> <<UsbNode("USB31Bus", "", "", <<>>)>>,
      bt |-> "ok", paired |-> names] : names \in [1..2 -> PairedUnknown]}

\* detect_all on a platform other than darwin runs no system_profiler
NoEnumeration == [usb |-> "skipped", buses |-> <<>>, bt |-> "skipped", paired |-> <<>>]

\* every device record the enumerations can hand to _identify_controller
DeviceRecords ==
    {<<d._name, d.vendor_id, d.product_id>> : d \in UsbDevices}
    \cup {<<"USB31Bus", "", "">>}
    \cup {<<n, "", "">> : n \in PairedNames \cup PairedUnknown}

\* _identify_controller on the device records of the enumerations
Identified ==
    [d \in DeviceRecords |-> _identify_controller(d[1], d[2], d[3])]

\* controller["connection"] = ...
Connected(c, connection) ==
    [id |-> c.id, name |-> c.name, year |-> c.year,
     detected_name |-> c.detected_name, vendor_id |-> c.vendor_id,
     product_id |-> c.product_id, n64_map |-> c.n64_map,
     auto_detect |-> c.auto_detect, connection |-> connection]

\* _scan_usb_tree(node, controllers); raised: name.lower() of a name that
\* is no string
RECURSIVE _scan_usb_tree(_, _), ScanItems(_, _)
_scan_usb_tree(node, controllers) ==
    IF ~node.isdict THEN [controllers |-> controllers, raised |-> FALSE]
    ELSE IF node._name = Null THEN [controllers |-> controllers, raised |-> TRUE]
    ELSE LET controller == Identified[<<node._name, node.vendor_id, node.product_id>>]
             found == IF controller.id # None
                      THEN Append(controllers, Connected(controller, "USB"))
                      ELSE controllers
         IN  ScanItems(node._items, found)

\* for item in items: self._scan_usb_tree(item, controllers, depth + 1)
ScanItems(items, controllers) ==
    IF Len(items) = 0 THEN [controllers |-> controllers, raised |-> FALSE]
    ELSE LET r == _scan_usb_tree(Head(items), controllers)
         IN  IF r.raised THEN r ELSE ScanItems(Tail(items), r.controllers)

\* the Bluetooth loop of detect_controllers_macos
RECURSIVE ScanBluetooth(_, _)
ScanBluetooth(names, controllers) ==
    IF Len(names) = 0 THEN controllers
    ELSE LET controller == Identified[<<Head(names), "", "">>]
         IN  ScanBluetooth(Tail(names),
                 IF controller.id # None
                 THEN Append(controllers, Connected(controller, "Bluetooth"))
                 ELSE controllers)

\* detect_controllers_macos(); an exception anywhere in the try block ends
\* the scan with the controllers appended so far
detect_controllers_macos(e) ==
    IF e.usb = "raised" THEN <<>>
    ELSE LET u == IF e.usb = "ok" THEN ScanItems(e.buses, <<>>)
                  ELSE [controllers |-> <<>>, raised |-> FALSE]
         IN  IF u.raised \/ e.bt # "ok" THEN u.controllers
             ELSE ScanBluetooth(e.paired, u.controllers)

(***************************************************************************)
(* Controller Selection.                                                   *)
(***************************************************************************)
\* a sort key of the year alone
KeyLess_YearOnly(a, b) == a.year < b.year

\* key=lambda c: (not c.get("auto_detect", False), c.get("year", 2000))
KeyLess(a, b) ==
    \/ a.auto_detect /\ ~b.auto_detect
    \/ a.auto_detect = b.auto_detect /\ a.year < b.year

\* list.sort(key=...): stable, equal keys keep their order
RECURSIVE SortInto(_, _)
SortInto(s, acc) ==
    IF Len(s) = 0 THEN acc
    ELSE LET c == Head(s)
             p == Cardinality({i \in 1..Len(acc) : ~KeyLess(c, acc[i])})
         IN  SortInto(Tail(s), SubSeq(acc, 1, p) \o <<c>> \o SubSeq(acc, p + 1, Len(acc)))

Sorted(s) == SortInto(s, <<>>)

\* detect_all that takes the first controller of every scan
Selected_Fresh(sorted, active) ==
    IF Len(sorted) = 0 THEN NoController ELSE sorted[1]

\* the selection of detect_all: the first auto_detect controller of the
\* sorted list, else the first controller when none is active yet
Selected(sorted, active) ==
    IF Len(sorted) = 0 THEN active
    ELSE IF \E i \in 1..Len(sorted) : sorted[i].auto_detect
    THEN sorted[CHOOSE i \in 1..Len(sorted) :
                    /\ sorted[i].auto_detect
                    /\ \A j \in 1..(i - 1) : ~sorted[j].auto_detect]
    ELSE IF active.id = None THEN sorted[1]
    ELSE active

(***************************************************************************)
(* Mapping Emitter.                                                        *)
(***************************************************************************)
\* dict.get(key, default)
get(m, key, default) == IF key \in DOMAIN m THEN m[key] ELSE default

\* no get_retroarch_config call yet
NoConfig == [called |-> FALSE, emitted |-> FALSE]

\* get_retroarch_config returned None
ReturnsNone == [called |-> TRUE, emitted |-> FALSE]

\* the config text: the two comment lines and the six input_player1_* lines
Config(name, detected_name, a, b, start, l, r, l2) ==
    [called |-> TRUE, emitted |-> TRUE,
     controller |-> name, detected |-> detected_name,
     buttons |-> [a |-> a, b |-> b, start |-> start, l |-> l, r |-> r, l2 |-> l2]]

\* get_retroarch_config that writes every button's own name
get_retroarch_config_Defaults(active) ==
    IF active.id = None THEN ReturnsNone
    ELSE IF active.n64_map.native THEN ReturnsNone
    ELSE Config(active.name, active.detected_name, "a", "b", "start", "l", "r", "l2")

\* get_retroarch_config without the "native" test
get_retroarch_config_NoSentinel(active) ==
    IF active.id = None THEN ReturnsNone
    ELSE LET n64_map == active.n64_map.map
         IN  Config(active.name, active.detected_name,
                    get(n64_map, "a", "a"), get(n64_map, "b", "b"),
                    get(n64_map, "start", "start"), get(n64_map, "l", "l"),
                    get(n64_map, "r", "r"), get(n64_map, "z", "l2"))

\* ControllerManager.get_retroarch_config()
get_retroarch_config(active) ==
    IF active.id = None THEN ReturnsNone
    ELSE IF active.n64_map.native THEN ReturnsNone
    ELSE LET n64_map == active.n64_map.map
         IN  Config(active.name, active.detected_name,
                    get(n64_map, "a", "a"), get(n64_map, "b", "b"),
                    get(n64_map, "start", "start"), get(n64_map, "l", "l"),
                    get(n64_map, "r", "r"), get(n64_map, "z", "l2"))

InitControllers ==
    /\ detected_controllers = <<>>
    /\ active_controller = NoController
    /\ scanned = NoEnumeration
    /\ lastCall = "none"
    /\ config = NoConfig

\* the sorted list every enumeration gives
Scans == [e \in Enumerations |-> Sorted(detect_controllers_macos(e))]

\* ControllerManager.detect_all()
detect_all ==
    /\ \E e \in (IF SYS_OS = "darwin" THEN Enumerations ELSE {NoEnumeration}) :
          \E sorted \in {IF SYS_OS = "darwin" THEN Scans[e] ELSE <<>>} :
              /\ scanned' = e
              /\ detected_controllers' = sorted
              /\ active_controller' = Selected(sorted, active_controller)
    /\ lastCall' = "detect_all"
    /\ UNCHANGED <<archVars, config, idVars>>

\* ConfigWindow.on_controller_change: the first detected controller of the
\* name picked in the combobox becomes active
on_controller_change ==
    /\ Len(detected_controllers) > 0
    /\ \E k \in 1..Len(detected_controllers) :
          LET name == detected_controllers[k].name
              i == CHOOSE i \in 1..Len(detected_controllers) :
                      /\ detected_controllers[i].name = name
                      /\ \A j \in 1..(i - 1) : detected_controllers[j].name # name
          IN  active_controller' = detected_controllers[i]
    /\ lastCall' = "on_controller_change"
    /\ UNCHANGED <<archVars, detected_controllers, scanned, config, idVars>>

\* mappings a registry entry can carry besides those of CONTROLLER_DATABASE:
\* keyed by buttons the emitter looks up, and the empty mapping
\* data.get("n64_map", {}) gives an entry without one
SampleMappings ==
    {("a" :> "x" @@ "b" :> "y"),
     ("a" :> "x" @@ "b" :> "y" @@ "z" :> "ZL"),
     ("l2" :> "LT"),
     <<>>}

\* the controllers get_retroarch_config is given: none, one of every
\* registry entry, one of every sample mapping
EmitInputs ==
    {NoController}
    \cup {Connected(Matched(CONTROLLER_DATABASE[i], CONTROLLER_DATABASE[i].name, "", ""),
                    "USB") : i \in 1..Len(CONTROLLER_DATABASE)}
    \cup {Connected(Matched(Profile("sample", "Sample Pad", 2024, <<>>, <<>>, <<>>,
                                    Mapping(m), FALSE),
                            "Sample Pad", "", ""), "USB") : m \in SampleMappings}

\* controller_manager.get_retroarch_config()
GetRetroarchConfig ==
    /\ config' = get_retroarch_config(active_controller)
    /\ lastCall' = "get_retroarch_config"
    /\ UNCHANGED <<archVars, detected_controllers, active_controller, scanned, idVars>>

\* the names, vendor id texts and product id texts _identify_controller is
\* called with: item.get('_name', ''), item.get('vendor_id', '') and
\* item.get('product_id', '') of a USB node, the name and two empty texts of
\* a paired Bluetooth device
IdentNames ==
    {"PDP Wired Pad", "Rock Candy Controller", "Generic Joystick", "Game Pad Pro",
     "USB Gamepad", "USB Keyboard", "Xbox One Controller", "xbox 360 controller",
     "Pro Controller", "USB Joypad"}

IdentVendors ==
    {"", "0x0e6f", "0x045e  (Microsoft Corporation)",
     "0x057e  (Nintendo Co., Ltd.)", "0x1a2c"}

IdentProducts == {"", "0x02d1", "0x0213", "0x2009"}

IdentInputs == IdentNames \X IdentVendors \X IdentProducts

NoDevice == <<Null, Null, Null>>

\* every input with what _identify_controller returns for it
IdentifiedInputs ==
    {<<d, _identify_controller(d[1], d[2], d[3])>> : d \in IdentInputs}

InitIdent ==
    /\ device = NoDevice
    /\ identified = NoController

\* one call self._identify_controller(name, vendor_id, product_id)
IdentifyController ==
    /\ \E call \in IdentifiedInputs :
          /\ device' = call[1]
          /\ identified' = call[2]
    /\ UNCHANGED <<archVars, ctlVars>>

(***************************************************************************)
(* Specifications.  The two pipelines share no state but SYS_OS, so each   *)
(* is checked with the other one at rest; get_retroarch_config, which no   *)
(* handler of the script calls, is checked on its own over the controllers *)
(* a manager can hold, and _identify_controller on its own over the names  *)
(* and ids a device can report.                                            *)
(***************************************************************************)
InitArch == InitFiles /\ InitControllers /\ InitIdent

InitCtl ==
    /\ script = "hle13x"
    /\ \E p \in {q \in Platforms : q[2] # "arm64"} : SYS_OS = p[1] /\ MACHINE = p[2]
    /\ ra_exe = NoFile
    /\ LSArchitecturePriority = ""
    /\ rosettaMarker = FALSE
    /\ coreFile = NoFile
    /\ zipFile = "absent"
    /\ RETROARCH_ARCH = None
    /\ PATHS = [core_arch |-> None]
    /\ resolved = NoResolution
    /\ last = NoOutcome
    /\ InitControllers
    /\ InitIdent

NextArch == get_platform_paths \/ InstallCore \/ reinstall_core

SpecArch == InitArch /\ [][NextArch]_vars

NextCtl == detect_all \/ on_controller_change

SpecCtl == InitCtl /\ [][NextCtl]_vars

\* the emitter on its own: a manager holding one controller, or none
InitEmit ==
    /\ script = "hle13x"
    /\ SYS_OS = "darwin" /\ MACHINE = "arm64"
    /\ ra_exe = NoFile
    /\ LSArchitecturePriority = ""
    /\ rosettaMarker = FALSE
    /\ coreFile = NoFile
    /\ zipFile = "absent"
    /\ RETROARCH_ARCH = None
    /\ PATHS = [core_arch |-> None]
    /\ resolved = NoResolution
    /\ last = NoOutcome
    /\ active_controller \in EmitInputs
    /\ detected_controllers =
          (IF active_controller.id = None THEN <<>> ELSE <<active_controller>>)
    /\ scanned = NoEnumeration
    /\ lastCall = "none"
    /\ config = NoConfig
    /\ InitIdent

NextEmit == GetRetroarchConfig

SpecEmit == InitEmit /\ [][NextEmit]_vars

InitMatch ==
    /\ script = "hle13x"
    /\ SYS_OS = "darwin" /\ MACHINE = "arm64"
    /\ ra_exe = NoFile
    /\ LSArchitecturePriority = ""
    /\ rosettaMarker = FALSE
    /\ coreFile = NoFile
    /\ zipFile = "absent"
    /\ RETROARCH_ARCH = None
    /\ PATHS = [core_arch |-> None]
    /\ resolved = NoResolution
    /\ last = NoOutcome
    /\ InitControllers
    /\ InitIdent

NextMatch == IdentifyController

SpecMatch == InitMatch /\ [][NextMatch]_vars

(***************************************************************************)
(* Properties of the architecture pipeline.                                *)
(***************************************************************************)
Known == {"arm64", "x86_64"}

\* the verify_core_arch calls the last install_core made
Verdicts == {v \in {last.first, last.post} : v.called}

\* what a working probe says of the core on disk
Probe(file) == get_binary_arch(file, TRUE)

\* the core on disk is of a known, single variant other than the needed one
StillMismatched ==
    /\ Probe(coreFile) \in Known
    /\ needed_arch_of(RETROARCH_ARCH) \in Known
    /\ Probe(coreFile) # needed_arch_of(RETROARCH_ARCH)

Ran == last.op \in {"install_core", "reinstall_core"}

\* C1: one install_core invocation calls install_core_forced, and through it
\* download, at most once, whatever the verdict on the core it installed.
C1_AtMostOneAcquisition ==
    Ran => last.acquisitions <= 1 /\ last.downloads <= 1

\* C1 witness: a repair ran its one acquisition and the core it installed is
\* still of the wrong variant
C1_Witness ==
    /\ last.op = "install_core"
    /\ last.first.called /\ ~last.first.is_valid
    /\ last.acquisitions = 1 /\ last.downloads = 1 /\ ~last.raised
    /\ StillMismatched

\* C2: after the one reacquisition the new core is re-probed and re-validated
\* once, and a core that is still mismatched makes install_core return no core.
C2_RevalidatedOnce ==
    (Ran /\ last.acquisitions = 1 /\ ~last.raised /\ coreFile.exists)
        => /\ last.post.called
           /\ (StillMismatched /\ ~last.probeFailed) => last.ret = None

\* C5: a failed acquisition leaves the core as it was before install_core and
\* leaves no archive file in the cores directory.
C5_FailureLeavesStateAsIs ==
    (last.op = "install_core" /\ last.raised)
        => coreFile = last.coreBefore /\ zipFile = "absent"

\* C6: equal and known plugin and host variants are reported compatible.
C6_EqualKnownCompatible ==
    \A v \in Verdicts :
        (v.core_arch \in Known /\ v.core_arch = v.needed_arch) => v.is_valid

\* C6 witness: an x86_64 core was validated against an x86_64 host
C6_Witness ==
    /\ last.first.called
    /\ last.first.core_arch = "x86_64" /\ last.first.needed_arch = "x86_64"
    /\ last.coreBefore = Binary({"x86_64"})

\* C7: a universal plugin is reported compatible with any known host variant,
\* and the verdict carries the variant universal.
C7_UniversalCompatible ==
    /\ \A v \in Verdicts :
          (v.core_arch = "universal" /\ v.needed_arch \in Known) => v.is_valid
    /\ (last.first.called /\ last.first.core_arch # None
            /\ {"arm64", "x86_64"} \subseteq last.coreBefore.archs)
          => last.first.core_arch = "universal" /\ last.first.is_valid

\* C7 witness: a universal core was validated against an arm64 host
C7_Witness ==
    /\ last.first.called
    /\ last.first.core_arch = "universal" /\ last.first.needed_arch = "arm64"
    /\ last.coreBefore = Binary({"arm64", "x86_64"})

\* C8: Mismatched is reported exactly when the plugin variant is known, not
\* universal, and differs from the known host variant.
C8_MismatchedExactly ==
    \A v \in Verdicts :
        ~v.is_valid <=> /\ v.core_arch \in Known
                        /\ v.needed_arch \in Known
                        /\ v.core_arch # v.needed_arch

\* C8 witness: an x86_64 core was validated against an arm64 host
C8_Witness ==
    /\ last.first.called /\ ~last.first.is_valid
    /\ last.first.core_arch = "x86_64" /\ last.first.needed_arch = "arm64"

\* C9: an undetermined variant on either side is never a mismatch, and
\* install_core then keeps the existing core and acquires nothing.
C9_IndeterminateNoOp ==
    /\ \A v \in Verdicts :
          (v.core_arch = None \/ v.needed_arch = None) => v.is_valid
    /\ (last.op = "install_core" /\ last.coreBefore.exists
            /\ last.first.called /\ last.first.core_arch = None)
          => /\ last.acquisitions = 0 /\ last.downloads = 0
             /\ coreFile = last.coreBefore
             /\ last.ret = "core"

\* C9 witness: on darwin an existing core could not be probed
C9_Witness ==
    /\ SYS_OS = "darwin"
    /\ last.op = "install_core" /\ last.coreBefore.exists
    /\ last.first.called /\ last.first.core_arch = None
    /\ last.first.needed_arch \in Known

\* the preference store held an override when the host arch was resolved
OverrideSet == StrIn("x86_64", resolved.priority) \/ resolved.marker

\* the resolver read an override from the preference store
OverrideRead ==
    \/ resolved.prioOk /\ StrIn("x86_64", resolved.priority)
    \/ resolved.markerOk /\ resolved.marker

C11_NoOverrideNative ==
    (resolved.called /\ resolved.binary_arch = "universal"
        /\ resolved.priority = "" /\ ~resolved.marker)
        => resolved.result = MACHINE

\* C11 witness: a universal host on Apple Silicon, no key in the store
C11_Witness ==
    /\ resolved.called /\ resolved.binary_arch = "universal"
    /\ resolved.priority = "" /\ ~resolved.marker
    /\ MACHINE = "arm64" /\ resolved.result = "arm64"

\* C18: install_core with no core on disk verifies nothing before it acquires,
\* makes one acquisition, for PATHS["core_arch"], which on darwin is the
\* resolved host variant, and returns a core only when the acquisition raised
\* nothing and left a core on disk.
C18_AbsentCoreAcquiresOnce ==
    (Ran /\ ~last.coreBefore.exists)
        => /\ ~last.first.called
           /\ last.acquisitions = 1 /\ last.downloads = 1
           /\ last.reqArch = PATHS.core_arch
           /\ SYS_OS = "darwin" => last.reqArch = RETROARCH_ARCH
           /\ last.ret # None => ~last.raised /\ coreFile.exists

\* C18 witness: init_app found no core, acquired one for arm64 and returned it
C18_Witness ==
    /\ last.op = "install_core" /\ ~last.coreBefore.exists
    /\ last.acquisitions = 1 /\ last.reqArch = "arm64" /\ RETROARCH_ARCH = "arm64"
    /\ last.ret = "core" /\ coreFile.exists

\* C21: get_binary_arch gives None, and nothing else, for a file that does
\* not exist, on a platform other than darwin, and when the lipo call fails
\* or times out; a probe leaves the probed file as it is.
C21_ProbeFailureIsUnknown ==
    /\ \A file \in {ra_exe, coreFile, NoFile} : \A lipoOk \in BOOLEAN :
          (SYS_OS # "darwin" \/ ~file.exists \/ ~lipoOk)
              => get_binary_arch(file, lipoOk) = None
    /\ (resolved.called /\ ~resolved.lipoOk) => resolved.binary_arch = None
    /\ (last.op = "install_core" /\ last.first.called /\ last.first.is_valid)
          => coreFile = last.coreBefore

\* C21 witness: lipo failed on an existing host binary, the probe gave None
\* and the resolver went on to the machine's variant
C21_Witness ==
    /\ resolved.called /\ ra_exe.exists /\ ~resolved.lipoOk
    /\ resolved.binary_arch = None
    /\ resolved.result = MACHINE

\* C22: a host binary that is absent or gives no variant to the probe
\* resolves to the machine's variant, and a host binary of one variant
\* resolves to that variant, whatever the preference store holds.
C22_FallbackAndSingleVariant ==
    resolved.called =>
        /\ (~ra_exe.exists \/ resolved.binary_arch = None) => resolved.result = MACHINE
        /\ resolved.binary_arch \in Known => resolved.result = resolved.binary_arch

\* C22 witness: an arm64-only host resolved to arm64 with both overrides in
\* the preference store
C22_Witness ==
    /\ resolved.called /\ resolved.binary_arch = "arm64"
    /\ StrIn("x86_64", resolved.priority) /\ resolved.marker
    /\ resolved.result = "arm64"

\* the validation of the existing core said Mismatched
Mismatched == last.op = "install_core" /\ last.first.called /\ ~last.first.is_valid

\* C23: on Mismatched install_core makes its acquisition for the needed_arch
\* verify_core_arch compared against, which is the resolved host variant, and
\* the old core is unlinked before the acquisition: an acquisition that
\* raises leaves the old core gone.
C23_DeleteThenAcquireNeeded ==
    Mismatched =>
        /\ last.acquisitions = 1
        /\ last.reqArch = last.first.needed_arch
        /\ last.reqArch = RETROARCH_ARCH
        /\ last.raised => coreFile # last.coreBefore

\* C23 witness: an x86_64 core against an arm64 host, the acquisition for
\* arm64 raised and no core is left
C23_Witness ==
    /\ Mismatched /\ last.first.core_arch = "x86_64"
    /\ last.reqArch = "arm64" /\ last.raised
    /\ last.coreBefore.exists /\ ~coreFile.exists

(***************************************************************************)
(* Properties of the controller pipeline.                                  *)
(***************************************************************************)
\* the first registry entry with a name pattern in the device name, 0 if none
Tier1(name) ==
    LET hits == {i \in 1..Len(CONTROLLER_DATABASE) :
                    PatternHit(CONTROLLER_DATABASE[i], lower(name))}
    IN  IF hits = {} THEN 0 ELSE CHOOSE i \in hits : \A j \in hits : i <= j

\* the registry entries the device's vendor and product id match
Tier2(vendor_id, product_id) ==
    {i \in 1..Len(CONTROLLER_DATABASE) :
        VendorHit(CONTROLLER_DATABASE[i], vendor_id, product_id)}

\* Tier1 and Tier2 of the device records of the enumerations
Tiers ==
    [d \in DeviceRecords |-> [byName |-> Tier1(d[1]), byId |-> Tier2(d[2], d[3])]]

TiersOf(c) == Tiers[<<c.detected_name, c.vendor_id, c.product_id>>]

\* C3: a device whose name holds a name pattern of entry X and whose ids
\* match another entry Y is identified as X, wherever X and Y stand in the
\* registry.
C3_Tier1Wins ==
    \A k \in 1..Len(detected_controllers) :
        LET c == detected_controllers[k]
            t == TiersOf(c)
        IN  (t.byName # 0 /\ t.byId \ {t.byName} # {})
                => c.id = CONTROLLER_DATABASE[t.byName].id

\* C4: after every scan the active controller is the first controller of the
\* scan's sorted list, and none when the list is empty.
C4_ActiveIsFirstOfScan ==
    lastCall = "detect_all" =>
        active_controller = IF Len(detected_controllers) = 0 THEN NoController
                            ELSE Sorted(detected_controllers)[1]

\* C12: in the list a scan produces every auto_detect controller stands
\* before every other controller whatever their years, within each of the two
\* groups the years ascend, and a scan that finds an auto_detect controller
\* makes the oldest of them active.
C12_PriorityThenYear ==
    /\ \A i, j \in 1..Len(detected_controllers) :
          i < j =>
            /\ detected_controllers[j].auto_detect => detected_controllers[i].auto_detect
            /\ (detected_controllers[i].auto_detect = detected_controllers[j].auto_detect)
                  => detected_controllers[i].year <= detected_controllers[j].year
    /\ (lastCall = "detect_all"
            /\ \E k \in 1..Len(detected_controllers) : detected_controllers[k].auto_detect)
          => /\ active_controller.id # None
             /\ active_controller.auto_detect
             /\ \E k \in 1..Len(detected_controllers) :
                    detected_controllers[k] = active_controller
             /\ \A k \in 1..Len(detected_controllers) :
                    detected_controllers[k].auto_detect
                        => active_controller.year <= detected_controllers[k].year

\* C12 witness: a scan found the auto_detect Switch Pro of 2017 and the
\* 8BitDo SN30 of 2018, which is no auto_detect controller; Switch Pro is active
C12_Witness ==
    /\ lastCall = "detect_all"
    /\ Len(detected_controllers) = 2
    /\ detected_controllers[1].id = "switch_pro" /\ detected_controllers[1].auto_detect
    /\ detected_controllers[2].id = "8bitdo_sn30" /\ ~detected_controllers[2].auto_detect
    /\ detected_controllers[1].year < detected_controllers[2].year
    /\ active_controller = detected_controllers[1]

\* C13: a run of detect_all whose scan gives the list the previous scan gave
\* selects what a run over that list selects when nothing is active yet,
\* whatever was active before it: the choice of an earlier scan or one made
\* in the configuration window.
C13_SelectionIsFunctionOfScan ==
    [][(lastCall' = "detect_all" /\ detected_controllers' = detected_controllers)
          => active_controller' = Selected(detected_controllers, NoController)]_vars

\* the name patterns of the registry entry a controller was identified as
PatternsOf(c) ==
    {ProfileOf(c.id).product_patterns[q] :
        q \in 1..Len(ProfileOf(c.id).product_patterns)}

\* C16: a device named "Xbox Wireless Controller", in any letter case and
\* with no vendor id, is identified as a registry entry whose name patterns
\* include "Xbox Wireless".
C16_XboxWirelessByName ==
    \A k \in 1..Len(detected_controllers) :
        LET c == detected_controllers[k]
        IN  (lower(c.detected_name) = "xbox wireless controller" /\ c.vendor_id = "")
                => "Xbox Wireless" \in PatternsOf(c)

\* str.upper()
UpperChar(c) ==
    IF \E i \in 1..26 : Lowercase[i] = c
    THEN Upper[CHOOSE i \in 1..26 : Lowercase[i] = c]
    ELSE c

RECURSIVE upper(_)
upper(s) ==
    IF Len(s) = 0 THEN ""
    ELSE UpperChar(SubSeq(s, 1, 1)) \o upper(SubSeq(s, 2, Len(s)))

\* a device record with the letter case of its name or its ids changed
CaseVariants(d) ==
    {<<upper(d[1]), d[2], d[3]>>, <<lower(d[1]), d[2], d[3]>>,
     <<d[1], upper(d[2]), d[3]>>, <<d[1], d[2], upper(d[3])>>,
     <<upper(d[1]), upper(d[2]), upper(d[3])>>,
     <<lower(d[1]), lower(d[2]), lower(d[3])>>}

\* the ids _identify_controller gives the case variants of the device records
VariantIds ==
    [d \in DeviceRecords |->
        {_identify_controller(v[1], v[2], v[3]).id : v \in CaseVariants(d)}]

\* the records the last scan handed to _identify_controller without raising
ScannedRecords ==
    {<<scanned.paired[k], "", "">> : k \in 1..Len(scanned.paired)}
    \cup UNION {{<<node._name, node.vendor_id, node.product_id>> :
                    node \in {scanned.buses[b]._items[k] :
                                 k \in 1..Len(scanned.buses[b]._items)}
                              \cap UsbDevices} :
                b \in 1..Len(scanned.buses)}

\* C17: changing the letter case of a device's name, vendor id or product id
\* does not change the profile id _identify_controller returns, none included.
C17_CaseInsensitive ==
    \A d \in ScannedRecords : VariantIds[d] = {Identified[d].id}

\* C17 witness: a scan identified the mixed-case "Xbox 360 Controller" of
\* vendor 0x0e6f as xbox_360, and so are its upper- and lower-case variants
C17_Witness ==
    /\ lastCall = "detect_all"
    /\ <<"Xbox 360 Controller", "0x0e6f", "0x0213">> \in ScannedRecords
    /\ \E k \in 1..Len(detected_controllers) :
          /\ detected_controllers[k].id = "xbox_360"
          /\ detected_controllers[k].detected_name # lower(detected_controllers[k].detected_name)
    /\ _identify_controller("XBOX 360 CONTROLLER", "0X0E6F", "0X0213").id = "xbox_360"

\* the device records no tier matches: no name pattern, no vendor and product
\* id, no generic keyword
NoTier ==
    {d \in DeviceRecords :
        /\ Tiers[d].byName = 0
        /\ Tiers[d].byId = {}
        /\ \A k \in 1..Len(controller_keywords) :
              ~StrIn(controller_keywords[k], lower(d[1]))}

\* the device record a detected controller was made from
RecordOf(c) == <<c.detected_name, c.vendor_id, c.product_id>>

\* C19: a device no tier matches is identified as none, is not in the list of
\* the scan that met it, and is never the active controller.
C19_NoMatchNeverActive ==
    /\ \A d \in ScannedRecords \cap NoTier :
          /\ Identified[d].id = None
          /\ \A k \in 1..Len(detected_controllers) : RecordOf(detected_controllers[k]) # d
    /\ active_controller.id # None => RecordOf(active_controller) \notin NoTier

\* C19 witness: a scan met the USB keyboard next to one controller, and the
\* controller is the only one detected and is active
C19_Witness ==
    /\ lastCall = "detect_all"
    /\ <<"USB Keyboard", "0x05ac (Apple Inc.)", "0x024f">> \in ScannedRecords \cap NoTier
    /\ Len(detected_controllers) = 1
    /\ active_controller = detected_controllers[1]

\* C20: a scan whose two system_profiler calls succeeded has every well-formed
\* controller device of the enumeration in its result, USB or Bluetooth,
\* whatever malformed nodes the enumeration holds next to them.
C20_MalformedNodeSkipped ==
    (lastCall = "detect_all" /\ scanned.usb = "ok" /\ scanned.bt = "ok")
        => /\ \A b \in 1..Len(scanned.buses) :
                \A i \in 1..Len(scanned.buses[b]._items) :
                    LET node == scanned.buses[b]._items[i]
                        d == <<node._name, node.vendor_id, node.product_id>>
                    IN  (node \in UsbDevices /\ Identified[d].id # None)
                            => \E k \in 1..Len(detected_controllers) :
                                  /\ RecordOf(detected_controllers[k]) = d
                                  /\ detected_controllers[k].connection = "USB"
           /\ \A i \in 1..Len(scanned.paired) :
                Identified[<<scanned.paired[i], "", "">>].id # None
                    => \E k \in 1..Len(detected_controllers) :
                          /\ detected_controllers[k].detected_name = scanned.paired[i]
                          /\ detected_controllers[k].connection = "Bluetooth"

\* C24: whatever scans and manual selections were made, the active
\* controller is none or one of the controllers of the current
\* detected_controllers list.
C24_ActiveIsOfCurrentScan ==
    active_controller.id # None =>
        \E k \in 1..Len(detected_controllers) :
            detected_controllers[k] = active_controller

\* the orders a list can come in
OrdersOf(s) ==
    {[i \in 1..Len(s) |-> s[f[i]]] : f \in Permutations(1..Len(s))}

\* the answers of system_profiler that list the devices of answer e in
\* another order
Reorderings(e) ==
    {[usb |-> e.usb, bt |-> e.bt, paired |-> names,
      buses |-> IF Len(e.buses) = 0 THEN e.buses
                ELSE <<UsbNode(e.buses[1]._name, e.buses[1].vendor_id,
                               e.buses[1].product_id, items)>>] :
        names \in OrdersOf(e.paired),
        items \in OrdersOf(IF Len(e.buses) = 0 THEN <<>> ELSE e.buses[1]._items)}

\* C28: the controller a scan makes active when none was active before is
\* the controller it makes active for every other order of the devices that
\* detects the same controllers.
C28_OrderIndependent ==
    (/\ lastCall = "detect_all"
     /\ SYS_OS = "darwin"
     /\ active_controller = Selected(detected_controllers, NoController))
        => \A e \in Reorderings(scanned) :
              detected_controllers \in OrdersOf(detect_controllers_macos(e))
                  => Selected(Sorted(detect_controllers_macos(e)), NoController)
                        = active_controller

\* the hexadecimal id at the head of an id text of system_profiler, as in
\* "0x045e  (Microsoft Corporation)"
IdOf(text) == IF Len(text) > 6 THEN SubSeq(text, 1, 6) ELSE text

\* the device's id is one of the ids a profile lists
OneOf(ids, text) == \E k \in 1..Len(ids) : lower(ids[k]) = lower(IdOf(text))

\* the vendor/product id rule for one profile
IdRule(data, vendor_id, product_id) ==
    /\ OneOf(data.vendor_ids, vendor_id)
    /\ Len(data.product_ids) > 0 => OneOf(data.product_ids, product_id)

\* the index of the registry entry the result is, 0 for None and for the
\* synthesized unknown controller
EntryOf(c) ==
    IF c.id = None THEN 0
    ELSE IF c.name # ProfileOf(c.id).name THEN 0
    ELSE CHOOSE i \in 1..Len(CONTROLLER_DATABASE) : CONTROLLER_DATABASE[i].id = c.id

\* C25: the id test of a profile succeeds exactly when the device's vendor
\* id is one of its vendor_ids and, for a profile with product_ids, the
\* device's product id is one of them; a result that was not found by a name
\* pattern obeys that rule; a profile without product_ids whose vendor id the
\* device has is the result unless an earlier entry is; a device with an
\* empty vendor id is identified by its name or not at all.
C25_ProductIdNarrowing ==
    device # NoDevice =>
        LET name == device[1]
            vendor_id == device[2]
            product_id == device[3]
            n == Len(CONTROLLER_DATABASE)
            e == EntryOf(identified)
        IN  /\ \A i \in 1..n :
                  VendorHit(CONTROLLER_DATABASE[i], vendor_id, product_id)
                      <=> IdRule(CONTROLLER_DATABASE[i], vendor_id, product_id)
            /\ (e # 0 /\ ~PatternHit(CONTROLLER_DATABASE[e], lower(name)))
                  => IdRule(CONTROLLER_DATABASE[e], vendor_id, product_id)
            /\ \A i \in 1..n :
                  (/\ Len(CONTROLLER_DATABASE[i].product_ids) = 0
                   /\ OneOf(CONTROLLER_DATABASE[i].vendor_ids, vendor_id))
                      => (e # 0 /\ e <= i)
            /\ vendor_id = ""
                  => (e = 0 \/ PatternHit(CONTROLLER_DATABASE[e], lower(name)))

\* C25 witness: vendor 0x0e6f is one of xbox_one's; with product id 0x02d1
\* the device is identified as xbox_one
C25_Witness ==
    /\ device = <<"PDP Wired Pad", "0x0e6f", "0x02d1">>
    /\ identified.id = "xbox_one"
    /\ ~PatternHit(ProfileOf("xbox_one"), lower(device[1]))

\* C25 witness of the narrowing: with product id 0x0213, which xbox_one does
\* not list, the same device is no controller
C25_WitnessNarrowed ==
    /\ device = <<"PDP Wired Pad", "0x0e6f", "0x0213">>
    /\ OneOf(ProfileOf("xbox_one").vendor_ids, device[2])
    /\ identified = NoController

\* no registry entry matches the device by a name pattern or by its ids
NoProfile(name, vendor_id, product_id) ==
    /\ Tier1(name) = 0
    /\ \A i \in 1..Len(CONTROLLER_DATABASE) :
          ~IdRule(CONTROLLER_DATABASE[i], vendor_id, product_id)

GenericKeywords == {"controller", "gamepad", "joystick", "joypad"}

\* C26: a device no registry entry matches and whose name holds one of the
\* keywords controller, gamepad, joystick, joypad is identified as the
\* unknown controller: n64_map of generic_xinput, no auto_detect, and the
\* name "Unknown Controller (<device name>)".
C26_GenericFallback ==
    (/\ device # NoDevice
     /\ NoProfile(device[1], device[2], device[3])
     /\ \E w \in GenericKeywords : StrIn(w, lower(device[1])))
        => /\ identified.id # None
           /\ identified.n64_map = ProfileOf("generic_xinput").n64_map
           /\ ~identified.auto_detect
           /\ identified.name = "Unknown Controller (" \o device[1] \o ")"
           /\ StrIn(device[1], identified.name)
           /\ identified.detected_name = device[1]

\* C26 witness: the USB joypad of an unlisted vendor is the unknown controller
C26_Witness ==
    /\ device = <<"USB Joypad", "0x1a2c", "0x0213">>
    /\ NoProfile(device[1], device[2], device[3])
    /\ identified.name = "Unknown Controller (USB Joypad)"
    /\ identified.n64_map = ProfileOf("generic_xinput").n64_map

\* the registry entries that match the device: a name pattern is in the
\* device name, letter case apart, or the ids match
MatchingEntries(name, vendor_id, product_id) ==
    {i \in 1..Len(CONTROLLER_DATABASE) :
        \/ PatternHit(CONTROLLER_DATABASE[i], lower(name))
        \/ IdRule(CONTROLLER_DATABASE[i], vendor_id, product_id)}

\* C29: _identify_controller returns the first registry entry, in the order
\* of declaration, that matches the device by a name pattern or by its ids,
\* and no registry entry when none matches; an entry matched by its ids
\* wins over a later entry matched by its name.
C29_FirstMatchingEntry ==
    device # NoDevice =>
        LET hits == MatchingEntries(device[1], device[2], device[3])
        IN  IF hits = {} THEN EntryOf(identified) = 0
            ELSE /\ EntryOf(identified) \in hits
                 /\ \A j \in hits : EntryOf(identified) <= j
                 /\ identified.id = CONTROLLER_DATABASE[EntryOf(identified)].id
                 /\ identified.year = CONTROLLER_DATABASE[EntryOf(identified)].year

\* C29 witness: the name holds a pattern of xbox_360, the vendor id is one of
\* xbox_duke's, which stands earlier: the device is identified as xbox_duke
C29_Witness ==
    /\ device = <<"xbox 360 controller", "0x045e  (Microsoft Corporation)", "">>
    /\ CONTROLLER_DATABASE[Tier1(device[1])].id = "xbox_360"
    /\ identified.id = "xbox_duke"
    /\ EntryOf(identified) < Tier1(device[1])

\* C30: a device whose name holds "controller" or "gamepad" is identified as
\* a registry entry, generic_xinput or an earlier one; the result named
\* "Unknown Controller (<device name>)" is returned for no such device, and
\* the name of the result does not contain the device name.
C30_UnknownOnlyWithoutControllerOrGamepad ==
    (/\ device # NoDevice
     /\ StrIn("controller", lower(device[1])) \/ StrIn("gamepad", lower(device[1])))
        => /\ EntryOf(identified) # 0
           /\ EntryOf(identified) <= EntryOf(ProfileOf("generic_xinput"))
           /\ identified.name # "Unknown Controller (" \o device[1] \o ")"
           /\ ~StrIn(device[1], identified.name)

\* C30 amended: a device whose name holds "controller" or "gamepad" is
\* identified as a registry entry, generic_xinput or an earlier one, and
\* carries that entry's own name, never "Unknown Controller (<device name>)";
\* the entry's name may itself contain the device name.
C30_RegistryNameForControllerOrGamepad ==
    (/\ device # NoDevice
     /\ StrIn("controller", lower(device[1])) \/ StrIn("gamepad", lower(device[1])))
        => /\ EntryOf(identified) # 0
           /\ EntryOf(identified) <= EntryOf(ProfileOf("generic_xinput"))
           /\ identified.name = CONTROLLER_DATABASE[EntryOf(identified)].name
           /\ identified.name # "Unknown Controller (" \o device[1] \o ")"

\* C30 witness: the paired "Pro Controller" is switch_pro, whose name
\* "Nintendo Switch Pro Controller" contains the device name
C30_Witness ==
    /\ device = <<"Pro Controller", "", "">>
    /\ identified.id = "switch_pro"
    /\ identified.name = ProfileOf("switch_pro").name
    /\ StrIn(device[1], identified.name)

(***************************************************************************)
(* Properties of the mapping emitter.                                      *)
(***************************************************************************)
\* the buttons get_retroarch_config writes
Written == {"a", "b", "start", "l", "r", "l2"}

LineOf(t) == IF t = "z" THEN "l2" ELSE t

\* C27: for a registry entry whose n64_map assigns the device's button S to
\* one of the target buttons a, b, start, l, r, z, the config's line for that
\* target button carries S.
C27_EmitsSourceButton ==
    (config.emitted /\ active_controller.id # "sample") =>
        \A S \in DOMAIN active_controller.n64_map.map :
            \A t \in {"a", "b", "start", "l", "r", "z"} :
                active_controller.n64_map.map[S] = t
                    => config.buttons[LineOf(t)] = S

\* C15: get_retroarch_config returns None when no controller is active or the
\* active controller's n64_map is "native", and a config in every other case.
C15_NativeOrNoneEmitsNothing ==
    config.called =>
        (config.emitted <=>
            ~(active_controller.id = None \/ active_controller.n64_map.native))

\* C15 witness: the call returned None for the Nintendo 64 pad, whose n64_map
\* is "native"
C15_Witness ==
    /\ config.called /\ ~config.emitted
    /\ active_controller.id = "n64" /\ active_controller.n64_map.native

====
